---------------------------- MODULE Spec2Model ----------------------------
(***************************************************************************)
(* A model of the whorl-client item package lifecycle:                     *)
(*   - the transport codec: Acquisition.__compress_file (submit path) and  *)
(*     Usage.__decode_item_file (fetch path);                              *)
(*   - the packager: Packager.package and its helpers;                     *)
(*   - batch acquisition: Acquisition.__init__, __validate_pyz_file and    *)
(*     Instance;                                                           *)
(*   - use and info: Usage.__init__, __use_item and __get_info;            *)
(*   - items, drops and backpacks: ItemSpec, Dropped and BackpackSpec.     *)
(* Byte strings are sequences of integers 0..255, text is a sequence of    *)
(* code points, file names are sequences of one-character strings.         *)
(***************************************************************************)
EXTENDS Integers, Sequences, FiniteSets, TLC

VARIABLES
    payload,      \* codec: the bytes of the item file handed to the submit path
    envelope,     \* codec: the text field item_bytestring held by the store
    decoded,      \* codec: the outcome of Usage.__decode_item_file
    tree,         \* packager: the item directory (Packager.directory) and its files
    temp_dir,     \* packager: Packager.temp_dir, 0 for None
    tmpfs,        \* packager: the scratch directories that exist, with their contents
    pyz,          \* packager: the file at Packager.pyz_path
    call,         \* packager: the last Packager method called, its arguments and outcome
    argv,         \* acquisition: sys.argv[1:], the candidate files
    reports,      \* acquisition: the verdict of each candidate the loop has finished
    sys_modules,  \* acquisition: sys.modules, the modules imported so far, by name
    sys_path,     \* acquisition: sys.path (0 is the working directory)
    scratch,      \* acquisition: the scratch directories of archive validation that exist
    sent,         \* acquisition: the add requests sent to the store
    acq_pc,       \* acquisition: "running", "done", or "raised" when an exception left __init__
    usage,        \* use/info: the Usage object under construction, the requests it
                  \* sent and the plugin operations it invoked
    invoked,      \* validation: what the last validation did with the candidate's
                  \* code (its body executed, its class looked up and made, ...)
    item_spec,    \* item: an ItemSpec object, the arguments it was made from and
                  \* the attributes it holds
    dropped,      \* drop: the Dropped object under construction, the requests it
                  \* sent and the files it wrote
    backpack      \* backpack: a BackpackSpec object and its last operation

codecVars == <<payload, envelope, decoded>>
packVars == <<tree, temp_dir, tmpfs, pyz, call>>
acqVars == <<argv, reports, sys_modules, sys_path, scratch, sent, acq_pc>>
objVars == <<item_spec, dropped, backpack>>
vars == <<payload, envelope, decoded, tree, temp_dir, tmpfs, pyz, call,
          argv, reports, sys_modules, sys_path, scratch, sent, acq_pc, usage, invoked,
          item_spec, dropped, backpack>>

-----------------------------------------------------------------------------
(* Outcomes of a call: a value, or the exception that escaped.             *)
Ok(v) == [ok |-> TRUE, val |-> v, err |-> "none"]
Err(e) == [ok |-> FALSE, val |-> <<>>, err |-> e]

-----------------------------------------------------------------------------
(* Bounds of the codec model.                                              *)
MaxLen == 3
ByteAlphabet == {0, 48, 97, 255}

RECURSIVE SeqsUpTo(_, _)
SeqsUpTo(S, n) ==
    IF n = 0 THEN {<<>>}
    ELSE LET shorter == SeqsUpTo(S, n - 1)
         IN shorter \cup {Append(s, x) : s \in {t \in shorter : Len(t) = n - 1}, x \in S}

-----------------------------------------------------------------------------
(* bytes.hex / bytes.fromhex                                               *)
HexDigits == <<48, 49, 50, 51, 52, 53, 54, 55, 56, 57, 97, 98, 99, 100, 101, 102>>

HexEncode(bs) ==
    [i \in 1..(2 * Len(bs)) |->
        IF i % 2 = 1 THEN HexDigits[(bs[(i + 1) \div 2] \div 16) + 1]
                     ELSE HexDigits[(bs[i \div 2] % 16) + 1]]

HexVal(c) ==
    IF c \in 48..57 THEN c - 48
    ELSE IF c \in 97..102 THEN c - 87
    ELSE IF c \in 65..70 THEN c - 55
    ELSE -1

IsSpace(c) == c \in {9, 10, 11, 12, 13, 32}

RECURSIVE FromHexAt(_, _)
FromHexAt(s, i) ==
    IF i > Len(s) THEN Ok(<<>>)
    ELSE IF IsSpace(s[i]) THEN FromHexAt(s, i + 1)
    ELSE IF i + 1 > Len(s) \/ HexVal(s[i]) < 0 \/ HexVal(s[i + 1]) < 0
         THEN Err("ValueError")
    ELSE LET rest == FromHexAt(s, i + 2)
         IN IF rest.ok THEN Ok(<<16 * HexVal(s[i]) + HexVal(s[i + 1])>> \o rest.val)
            ELSE rest

\* bytes.fromhex; a string of hex digit pairs without white space is converted
\* pair by pair
FromHex(s) ==
    IF Len(s) % 2 = 0 /\ \A i \in 1..Len(s) : HexVal(s[i]) >= 0
    THEN Ok([i \in 1..(Len(s) \div 2) |-> 16 * HexVal(s[2 * i - 1]) + HexVal(s[2 * i])])
    ELSE FromHexAt(s, 1)

-----------------------------------------------------------------------------
(* bytes.decode("utf-8") and str.encode("utf-8")                           *)
IsCont(b) == b \in 128..191

RECURSIVE Utf8DecodeAt(_, _)
Utf8DecodeAt(bs, i) ==
    IF i > Len(bs) THEN Ok(<<>>)
    ELSE
      LET b0 == bs[i]
          need == IF b0 < 128 THEN 0
                  ELSE IF b0 \in 194..223 THEN 1
                  ELSE IF b0 \in 224..239 THEN 2
                  ELSE IF b0 \in 240..244 THEN 3
                  ELSE -1
          avail == need >= 0 /\ i + need <= Len(bs)
                   /\ \A k \in 1..need : IsCont(bs[i + k])
          cp == IF need = 0 THEN b0
                ELSE IF need = 1 THEN (b0 - 192) * 64 + (bs[i + 1] - 128)
                ELSE IF need = 2 THEN (b0 - 224) * 4096 + (bs[i + 1] - 128) * 64
                                      + (bs[i + 2] - 128)
                ELSE (b0 - 240) * 262144 + (bs[i + 1] - 128) * 4096
                     + (bs[i + 2] - 128) * 64 + (bs[i + 3] - 128)
          wellFormed == /\ avail
                        /\ need = 2 => (cp >= 2048 /\ cp \notin 55296..57343)
                        /\ need = 3 => (cp >= 65536 /\ cp <= 1114111)
      IN IF ~wellFormed THEN Err("UnicodeDecodeError")
         ELSE LET rest == Utf8DecodeAt(bs, i + need + 1)
              IN IF rest.ok THEN Ok(<<cp>> \o rest.val) ELSE rest

\* bytes.decode("utf-8"); bytes below 128 are their own code points
Utf8Decode(bs) ==
    IF \A i \in 1..Len(bs) : bs[i] < 128 THEN Ok(bs) ELSE Utf8DecodeAt(bs, 1)

Utf8EncodeChar(cp) ==
    IF cp < 128 THEN <<cp>>
    ELSE IF cp < 2048 THEN <<192 + (cp \div 64), 128 + (cp % 64)>>
    ELSE IF cp < 65536 THEN <<224 + (cp \div 4096), 128 + ((cp \div 64) % 64), 128 + (cp % 64)>>
    ELSE <<240 + (cp \div 262144), 128 + ((cp \div 4096) % 64),
           128 + ((cp \div 64) % 64), 128 + (cp % 64)>>

RECURSIVE Utf8EncodeFrom(_)
Utf8EncodeFrom(s) ==
    IF s = <<>> THEN <<>> ELSE Utf8EncodeChar(Head(s)) \o Utf8EncodeFrom(Tail(s))

\* str.encode("utf-8"); code points below 128 are one byte each
Utf8Encode(s) ==
    IF \A i \in 1..Len(s) : s[i] < 128 THEN s ELSE Utf8EncodeFrom(s)

-----------------------------------------------------------------------------
(* zipfile.ZipFile: an archive is a sequence of entries [name, data]; its  *)
(* bytes are, per entry, the local-header signature "PK\x03\x04", the      *)
(* name and the data each preceded by its length, then the end record      *)
(* "PK\x05\x06" and the entry count.  (Compression is lossless and is not  *)
(* modelled; a real archive begins with the same signature.)               *)
LocalSig == <<80, 75, 3, 4>>
EndSig == <<80, 75, 5, 6>>

RECURSIVE ZipEntriesBytes(_)
ZipEntriesBytes(entries) ==
    IF entries = <<>> THEN <<>>
    ELSE LET e == Head(entries)
         IN LocalSig \o <<Len(e.name)>> \o e.name \o <<Len(e.data)>> \o e.data
            \o ZipEntriesBytes(Tail(entries))

ZipBytes(entries) == ZipEntriesBytes(entries) \o EndSig \o <<Len(entries)>>

HasPrefixAt(bs, i, p) ==
    /\ i + Len(p) - 1 <= Len(bs)
    /\ \A k \in 1..Len(p) : bs[i + k - 1] = p[k]

RECURSIVE ZipParseAt(_, _, _)
ZipParseAt(bs, i, acc) ==
    IF HasPrefixAt(bs, i, EndSig)
    THEN IF i + 4 = Len(bs) /\ bs[i + 4] = Len(acc) THEN Ok(acc) ELSE Err("BadZipFile")
    ELSE IF ~HasPrefixAt(bs, i, LocalSig) \/ i + 4 > Len(bs) THEN Err("BadZipFile")
    ELSE LET nlen == bs[i + 4]
             dpos == i + 5 + nlen
         IN IF dpos > Len(bs) \/ dpos + bs[dpos] > Len(bs) THEN Err("BadZipFile")
            ELSE LET dlen == bs[dpos]
                     e == [name |-> SubSeq(bs, i + 5, i + 4 + nlen),
                           data |-> SubSeq(bs, dpos + 1, dpos + dlen)]
                 IN ZipParseAt(bs, dpos + dlen + 1, Append(acc, e))

\* zipfile.ZipFile(io.BytesIO(bs)): the entries, or BadZipFile
ZipOpen(bs) == ZipParseAt(bs, 1, <<>>)

\* ZipFile.read(name) / ZipFile.open(name).read(): KeyError when absent
ZipRead(entries, name) ==
    IF \E k \in 1..Len(entries) : entries[k].name = name
    THEN Ok(entries[CHOOSE k \in 1..Len(entries) :
                      /\ entries[k].name = name
                      /\ \A j \in (k + 1)..Len(entries) : entries[j].name # name].data)
    ELSE Err("KeyError")

-----------------------------------------------------------------------------
(* The submit path.                                                        *)
\* the item name "W" and the suffix ".pyz", as text
ItemName == <<87>>
PyzSuffix == <<46, 112, 121, 122>>

\* Acquisition.__compress_file: the file's bytes as the one entry, named
\* instance.name, of a fresh archive
compress_file(name, binary_data) == ZipBytes(<<[name |-> name, data |-> binary_data]>>)

\* the text-safe form the store keeps in item_bytestring: the archive in hex
SubmitEnvelope(name, binary_data) == HexEncode(compress_file(name, binary_data))

(* The fetch path: Usage.__decode_item_file up to self.source.             *)
decode_item_file(item_name, item_bytestring) ==
    LET item == item_name \o PyzSuffix
        raw == FromHex(item_bytestring)
    IN IF ~raw.ok THEN raw ELSE
       LET zip_bytestring == Utf8Decode(raw.val)
       IN IF ~zip_bytestring.ok THEN zip_bytestring ELSE
          LET buffer == ZipBytes(<<[name |-> item, data |-> Utf8Encode(zip_bytestring.val)]>>)
              fh == ZipOpen(buffer)
          IN IF ~fh.ok THEN fh ELSE
             LET z == ZipRead(fh.val, item)
             IN IF ~z.ok THEN z ELSE
                LET text == Utf8Decode(z.val)
                IN IF ~text.ok THEN text ELSE
                   LET archive == FromHex(text.val)
                   IN IF ~archive.ok THEN archive ELSE
                      LET zf == ZipOpen(archive.val)
                      IN IF ~zf.ok THEN zf
                         ELSE IF zf.val = <<>> THEN Err("IndexError")
                         ELSE Ok(zf.val[1].data)

\* the text form __decode_item_file reads: the hex of the UTF-8 of the hex of
\* an archive
EnvelopeOf(archive) == HexEncode(Utf8Encode(HexEncode(archive)))

\* the archives a stored item may hold: no entry, the item file alone, or the
\* item file and a second entry
InnerArchives(data) ==
    {<<>>,
     <<[name |-> ItemName, data |-> data]>>,
     <<[name |-> ItemName, data |-> data], [name |-> <<109>>, data |-> <<>>]>>}

-----------------------------------------------------------------------------
-----------------------------------------------------------------------------
(* The packager.  File and directory names are sequences of one-character  *)
(* strings; module text is a sequence of tokens.                           *)
ContentLen == 2
MaxEntryCalls == 3
MaxDirs == 1

ToUpper(c) == CASE c = "w" -> "W" [] c = "g" -> "G" [] OTHER -> c
ToLower(c) == CASE c = "W" -> "w" [] c = "G" -> "g" [] OTHER -> c

\* ''.join(word.capitalize() for word in name.split('_'))
RECURSIVE CamelFrom(_, _)
CamelFrom(name, wordStart) ==
    IF name = <<>> THEN <<>>
    ELSE IF Head(name) = "_" THEN CamelFrom(Tail(name), TRUE)
    ELSE <<IF wordStart THEN ToUpper(Head(name)) ELSE ToLower(Head(name))>>
         \o CamelFrom(Tail(name), FALSE)

snake_to_camel(name) == CamelFrom(name, TRUE)

PySuffix == <<".", "p", "y">>
MetaFile == <<"m", "e", "t", "a">> \o PySuffix
MainFile == <<"_", "_", "m", "a", "i", "n", "_", "_">> \o PySuffix
DirNames == {<<"w", "_", "g">>}

\* Packager.__init__: module_name, and the required module file
ModuleName(t) == snake_to_camel(t.dir)
ModuleFile(t) == ModuleName(t) \o PySuffix

RequiredKeys == {"name", "author", "version", "description"}

\* the launcher test of _add_entrypoint, "if __name__ == '__main__'", and the
\* block it appends: two newlines, the guard, and the call of use()
Marker == <<"if __name__ ==", "'__main__'">>
EntrypointCode == <<"\n", "\n">> \o Marker \o <<":\n    M().use()">>
TextTokens == {"if __name__ ==", "'__main__'"}

\* `needle in text` on strings
Contains(text, needle) ==
    \E i \in 1..(Len(text) - Len(needle) + 1) :
        \A k \in 1..Len(needle) : text[i + k - 1] = needle[k]

Occurrences(text, needle) ==
    Cardinality({i \in 1..(Len(text) - Len(needle) + 1) :
                    \A k \in 1..Len(needle) : text[i + k - 1] = needle[k]})

NoModule == [file |-> <<>>, loads |-> FALSE, classes |-> {}, text |-> <<>>]
NoMeta == [kind |-> "absent", keys |-> {}]

\* what a meta.py can be: it raises when executed, defines no `metadata`, defines
\* one that is no dict, or defines a dict with some of the keys
MetaKinds ==
    {[kind |-> k, keys |-> {}] : k \in {"raises", "undefined", "notdict"}}
    \cup {[kind |-> "dict", keys |-> K] :
            K \in {RequiredKeys, {}} \cup {RequiredKeys \ {k} : k \in RequiredKeys}}

\* what the module file of a directory d can be: named after the CamelCase
\* module name or after the directory itself; it raises when executed, or
\* defines the class named like the module, or does not
ModuleKinds(d) ==
    {[file |-> f \o PySuffix, loads |-> l, classes |-> c, text |-> x] :
        f \in {snake_to_camel(d), d},
        l \in BOOLEAN,
        c \in {{}, {snake_to_camel(d)}},
        x \in SeqsUpTo(TextTokens, ContentLen)}

\* the item directories named d: meta.py, the module file and __main__.py (which
\* Create.create_item_main writes) each there or not
TreesOf(d) ==
    {[dir |-> d,
      files |-> (IF m.kind = "absent" THEN {} ELSE {MetaFile})
                \cup (IF c.file = <<>> THEN {} ELSE {c.file})
                \cup (IF mainpy THEN {MainFile} ELSE {}),
      meta |-> m, mod |-> c] :
        m \in MetaKinds \cup {NoMeta}, mainpy \in BOOLEAN,
        c \in {NoModule} \cup {k \in ModuleKinds(d) : k.loads \/ k.classes = {}}}

Trees == UNION {TreesOf(d) : d \in DirNames}

NoFile == [exists |-> FALSE, kind |-> "none", files |-> {}, text |-> <<>>, main |-> <<>>]
OldFile == [exists |-> TRUE, kind |-> "old", files |-> {}, text |-> <<>>, main |-> <<>>]

\* What escaped a Packager method: nothing (ok), or an exception of type err with
\* its message and, for the re-raise of package, its cause.  P is the packager's
\* state after the call: temp_dir, the scratch directories and the output file.
Done(P) == [ok |-> TRUE, err |-> "none", cause |-> "none", msg |-> "none",
            missing |-> <<>>, P |-> P]
Raised(P, e, m, miss) == [ok |-> FALSE, err |-> e, cause |-> "none", msg |-> m,
                          missing |-> miss, P |-> P]

-----------------------------------------------------------------------------
\* a validation that reports only the first missing file
MissingFiles_firstOnly(t) ==
    LET all == SelectSeq(<<MetaFile, snake_to_camel(t.dir) \o PySuffix>>,
                         LAMBDA f : f \notin t.files)
    IN IF all = <<>> THEN all ELSE <<all[1]>>

\* Packager._validate_structure, the required files: every missing one is named
MissingFiles(t) ==
    SelectSeq(<<MetaFile, ModuleFile(t)>>, LAMBDA f : f \notin t.files)

\* Packager._validate_structure, the meta.py check
MetaAccepted(m) == m.kind = "dict"

\* Packager._validate_structure, the module check
ModuleAccepted(t) == t.mod.loads /\ ModuleName(t) \in t.mod.classes

\* what _validate_structure does with the files of the tree: spec.loader
\* .exec_module runs meta.py, then the module file, and hasattr looks for the
\* class; nothing is instantiated
validate_structure_operations(t) ==
    IF MissingFiles(t) # <<>> THEN <<>>
    ELSE IF ~MetaAccepted(t.meta) THEN <<"exec meta">>
    ELSE IF ~t.mod.loads THEN <<"exec meta", "exec">>
    ELSE <<"exec meta", "exec", "getattr class">>

\* the directory the import system writes compiled modules to
PycacheDir == <<"_", "_", "p", "y", "c", "a", "c", "h", "e", "_", "_">>

\* spec.loader.exec_module(module) of a file of the item directory: the source
\* loader compiles the file and writes the bytecode to __pycache__ beside it,
\* then runs the body
exec_module(P) == [P EXCEPT !.src.files = @ \cup {PycacheDir}]

\* Packager._validate_structure.  P.src is the item directory as it is on disk.
validate_structure(P, t) ==
    IF MissingFiles(t) # <<>>
    THEN Raised(P, "FileNotFoundError", "Missing required files", MissingFiles(t))
    ELSE IF t.meta.kind = "raises"
    THEN Raised(P, "ValueError", "Invalid meta.py file", <<>>)
    ELSE IF ~MetaAccepted(t.meta)
    THEN Raised(exec_module(P), "ValueError", "Invalid meta.py file", <<>>)
    ELSE IF ~t.mod.loads
    THEN Raised(exec_module(P), "ValueError", "Invalid module file", <<>>)
    ELSE IF ~ModuleAccepted(t)
    THEN Raised(exec_module(exec_module(P)), "ValueError", "Invalid module file", <<>>)
    ELSE Done(exec_module(exec_module(P)))

\* tempfile.mkdtemp: a directory that did not exist
FreshDir(fs) == CHOOSE d \in 1..(Cardinality(DOMAIN fs) + 1) : d \notin DOMAIN fs

\* Packager._prepare_staging_area; an I/O fault makes a copy fail after the
\* directory was made
prepare_staging_area(P, t, fault) ==
    LET d == FreshDir(P.tmpfs)
        made == [P EXCEPT !.temp_dir = d,
                          !.tmpfs = (d :> [files |-> {}, mod |-> NoModule]) @@ P.tmpfs]
    IN IF fault = "copy" THEN Raised(made, "OSError", "copy failed", <<>>)
       ELSE Done([made EXCEPT !.tmpfs[d] = [files |-> P.src.files, mod |-> P.src.mod]])

\* a launcher test that looks for the guard written with double quotes, which the
\* appended block does not contain
add_entrypoint_text_otherQuotes(content) ==
    IF ~Contains(content, <<"if __name__ ==", "\"__main__\"">>)
    THEN content \o EntrypointCode ELSE content

\* the text _add_entrypoint leaves in the module file
add_entrypoint_text(content) ==
    IF ~Contains(content, Marker) THEN content \o EntrypointCode ELSE content

\* Packager._add_entrypoint, on the staged <module_name>.py
add_entrypoint(P, t, fault) ==
    IF P.temp_dir = 0 THEN Raised(P, "TypeError", "temp_dir is None", <<>>)
    ELSE IF ModuleFile(t) \notin P.tmpfs[P.temp_dir].files \/ fault = "read"
    THEN Raised(P, "OSError", "cannot read module", <<>>)
    ELSE Done([P EXCEPT !.tmpfs[P.temp_dir].mod.text = add_entrypoint_text(@)])

\* zipapp.create_archive(source=temp_dir, target=pyz_path, main="M:M")
create_archive(P, t, fault) ==
    LET staged == P.tmpfs[P.temp_dir]
    IN IF MainFile \in staged.files
       THEN Raised(P, "ZipAppError", "source has __main__.py", <<>>)
       ELSE IF fault = "archive" THEN Raised(P, "OSError", "cannot write target", <<>>)
       ELSE Done([P EXCEPT !.pyz = [exists |-> TRUE, kind |-> "archive",
                                    files |-> staged.files \cup {MainFile},
                                    text |-> staged.mod.text,
                                    main |-> <<ModuleName(t), ModuleName(t)>>]])

\* Packager._cleanup
cleanup(P) ==
    IF P.temp_dir # 0 /\ P.temp_dir \in DOMAIN P.tmpfs
    THEN [P EXCEPT !.temp_dir = 0,
                   !.tmpfs = [d \in DOMAIN P.tmpfs \ {P.temp_dir} |-> P.tmpfs[d]]]
    ELSE P

\* the try block of Packager.package
package_try(P, t, force, fault) ==
    IF P.pyz.exists /\ ~force
    THEN Raised(P, "FileExistsError", "Output file already exists", <<>>)
    ELSE LET v == validate_structure(P, t)
         IN IF ~v.ok THEN v ELSE
            LET s == prepare_staging_area(v.P, t, fault)
            IN IF ~s.ok THEN s ELSE
               LET a == add_entrypoint(s.P, t, fault)
               IN IF ~a.ok THEN a ELSE create_archive(a.P, t, fault)

\* the except clause of Packager.package: every exception is re-raised as a
\* RuntimeError that carries it as its cause
package_except(r) ==
    IF r.ok THEN r ELSE [r EXCEPT !.err = "RuntimeError", !.cause = r.err]

\* a cleanup that runs on the way out of a successful build only
package_finally_onSuccessOnly(r) == IF r.ok THEN [r EXCEPT !.P = cleanup(r.P)] ELSE r

\* the finally clause of Packager.package
package_finally(r) == [r EXCEPT !.P = cleanup(r.P)]

\* Packager.package
package(P, t, force, fault) == package_finally(package_except(package_try(P, t, force, fault)))

-----------------------------------------------------------------------------
(* The states of the parts before anything ran.                            *)
NoEnvelope == [set |-> FALSE, text |-> <<>>]
NotDecoded == [done |-> FALSE, ok |-> FALSE, val |-> <<>>, err |-> "none"]

\* no codec run in this behaviour
CodecIdle ==
    /\ payload = <<>>
    /\ envelope = NoEnvelope
    /\ decoded = NotDecoded

NoCall == [op |-> "none", force |-> FALSE, fault |-> "none", n |-> 0,
           ok |-> TRUE, err |-> "none", cause |-> "none", msg |-> "none",
           missing |-> <<>>, prePyz |-> NoFile, preDirs |-> {}]

\* no packager in this behaviour
PackIdle ==
    /\ tree = [dir |-> <<>>, files |-> {}, meta |-> NoMeta, mod |-> NoModule]
    /\ temp_dir = 0
    /\ tmpfs = <<>>
    /\ pyz = NoFile
    /\ call = NoCall

\* no batch in this behaviour
AcquireIdle ==
    /\ argv = <<>>
    /\ reports = <<>>
    /\ sys_modules = <<>>
    /\ sys_path = <<0>>
    /\ scratch = {}
    /\ sent = <<>>
    /\ acq_pc = "idle"

NoUsage == [pc |-> "idle", item |-> <<>>, to_use |-> FALSE, instance |-> "sibling",
            store |-> "found", source |-> <<>>, inst_source |-> <<>>,
            loaded |-> <<>>, log |-> <<>>, err |-> "none", cause |-> "none"]

\* no use or info invocation in this behaviour
UseIdle == usage = NoUsage

NoItem == [made |-> FALSE, filename |-> <<>>, flags |-> <<>>, meta_file |-> "none",
           attrs |-> <<>>]

NoDrop == [pc |-> "idle", names |-> <<>>, k |-> 0, record |-> <<>>, text |-> <<>>,
           files |-> <<>>, log |-> <<>>, err |-> "none"]

NoBackpack == [made |-> FALSE, capacity |-> [int |-> TRUE, n |-> 0, text |-> <<>>],
               contents |-> <<>>,
               last |-> [op |-> "none", item |-> [id |-> 0, modname |-> <<>>],
                         name |-> <<>>, ret |-> "none", pre |-> <<>>]]

\* no item, drop or backpack in this behaviour
ObjIdle ==
    /\ item_spec = NoItem
    /\ dropped = NoDrop
    /\ backpack = NoBackpack

-----------------------------------------------------------------------------
Faults == {"none", "copy", "read", "archive"}

\* the packager's own state, as one record
Pk == [temp_dir |-> temp_dir, tmpfs |-> tmpfs, pyz |-> pyz, src |-> tree]

Called(op, force, fault, n, r) ==
    [op |-> op, force |-> force, fault |-> fault, n |-> n,
     ok |-> r.ok, err |-> r.err, cause |-> r.cause, msg |-> r.msg,
     missing |-> r.missing, prePyz |-> pyz, preDirs |-> DOMAIN tmpfs]

\* Packager(directory): any item directory, the output file there or not
InitPackager ==
    /\ tree \in Trees
    /\ temp_dir = 0
    /\ tmpfs = <<>>
    /\ pyz \in {NoFile, OldFile}
    /\ call = NoCall
    /\ CodecIdle
    /\ AcquireIdle
    /\ UseIdle
    /\ ObjIdle
    /\ invoked = <<>>

Adopt(op, force, fault, n, r) ==
    /\ temp_dir' = r.P.temp_dir
    /\ tmpfs' = r.P.tmpfs
    /\ pyz' = r.P.pyz
    /\ call' = Called(op, force, fault, n, r)
    /\ invoked' = IF op = "validate_structure"
                     \/ (op = "package" /\ r.cause # "FileExistsError")
                  THEN validate_structure_operations(tree) ELSE <<>>
    /\ tree' = r.P.src
    /\ UNCHANGED <<codecVars, acqVars, usage, objVars>>

Package ==
    /\ tree.dir # <<>>
    /\ \E force \in BOOLEAN, fault \in Faults :
          Adopt("package", force, fault, 0, package(Pk, tree, force, fault))

ValidateStructure ==
    /\ tree.dir # <<>>
    /\ Adopt("validate_structure", FALSE, "none", 0, validate_structure(Pk, tree))

PrepareStagingArea ==
    /\ tree.dir # <<>>
    /\ Cardinality(DOMAIN tmpfs) < MaxDirs
    /\ Adopt("prepare_staging_area", FALSE, "none", 0, prepare_staging_area(Pk, tree, "none"))

AddEntrypoint ==
    /\ tree.dir # <<>>
    /\ temp_dir # 0
    /\ LET n == IF call.op = "add_entrypoint" /\ call.ok THEN call.n + 1 ELSE 1
       IN /\ n <= MaxEntryCalls
          /\ Adopt("add_entrypoint", FALSE, "none", n, add_entrypoint(Pk, tree, "none"))

Cleanup ==
    /\ tree.dir # <<>>
    /\ temp_dir # 0
    /\ Adopt("cleanup", FALSE, "none", 0, Done(cleanup(Pk)))

NextPackager == Package \/ ValidateStructure \/ PrepareStagingArea \/ AddEntrypoint \/ Cleanup

SpecPackager == InitPackager /\ [][NextPackager]_vars

InitCodec ==
    /\ payload \in SeqsUpTo(ByteAlphabet, MaxLen)
    /\ envelope = NoEnvelope
    /\ decoded = NotDecoded
    /\ PackIdle
    /\ AcquireIdle
    /\ UseIdle
    /\ invoked = <<>>
    /\ ObjIdle

\* `get`: the item file is compressed and stored as text
Submit ==
    /\ ~envelope.set
    /\ envelope' = [set |-> TRUE, text |-> SubmitEnvelope(ItemName, payload)]
    /\ UNCHANGED <<payload, decoded>>
    /\ UNCHANGED <<packVars, acqVars, usage, invoked, objVars>>

\* the store holds an item that came another way: an archive of its own
\* making, in the text form the decoder reads
StoreArchive ==
    /\ ~envelope.set
    /\ \E entries \in InnerArchives(payload) :
          envelope' = [set |-> TRUE, text |-> EnvelopeOf(ZipBytes(entries))]
    /\ UNCHANGED <<payload, decoded>>
    /\ UNCHANGED <<packVars, acqVars, usage, invoked, objVars>>

\* `use` / `info`: the stored text is decoded back into source bytes
Fetch ==
    /\ envelope.set
    /\ ~decoded.done
    /\ LET r == decode_item_file(ItemName, envelope.text)
       IN decoded' = [done |-> TRUE, ok |-> r.ok, val |-> r.val, err |-> r.err]
    /\ UNCHANGED <<payload, envelope>>
    /\ UNCHANGED <<packVars, acqVars, usage, invoked, objVars>>

NextCodec == Submit \/ StoreArchive \/ Fetch

SpecCodec == InitCodec /\ [][NextCodec]_vars

-----------------------------------------------------------------------------
(* Batch acquisition: Acquisition.__init__ over sys.argv[1:].              *)
MaxBatch == 2

Idents == {"W", "G"}

\* What the source of a candidate defines, as far as validation looks: whether
\* the module <ident>.py is there (in the working directory, or in the archive),
\* whether its body executes, whether it defines <ident>, whether that is a
\* subclass of ItemSpec (which brings use), whether <ident>() raises, and
\* whether an instance has use.
Def(found, execOk, hasClass, isItemSpec, ctorRaises, hasUse) ==
    [found |-> found, execOk |-> execOk, hasClass |-> hasClass,
     isItemSpec |-> isItemSpec, ctorRaises |-> ctorRaises, hasUse |-> hasUse]

GoodDef == Def(TRUE, TRUE, TRUE, TRUE, FALSE, TRUE)
Defs == {GoodDef,
         Def(FALSE, FALSE, FALSE, FALSE, FALSE, FALSE),  \* no such module
         Def(TRUE, FALSE, FALSE, FALSE, FALSE, FALSE),   \* the body raises
         Def(TRUE, TRUE, FALSE, FALSE, FALSE, FALSE),    \* no class <ident>
         Def(TRUE, TRUE, TRUE, FALSE, FALSE, TRUE),      \* not an ItemSpec
         Def(TRUE, TRUE, TRUE, TRUE, TRUE, TRUE)}        \* the constructor raises

\* The files that can be named on the command line: <ident>.py in the working
\* directory, or some <dir>/<ident>.pyz, which may not exist or be no archive.
Candidates ==
    {[kind |-> "py", ident |-> i, exists |-> d.found, readable |-> TRUE, def |-> d] :
        i \in Idents, d \in Defs}
    \cup {[kind |-> "pyz", ident |-> i, exists |-> TRUE, readable |-> TRUE, def |-> d] :
            i \in Idents, d \in Defs}
    \cup {[kind |-> "pyz", ident |-> i, exists |-> e, readable |-> FALSE,
           def |-> Def(FALSE, FALSE, FALSE, FALSE, FALSE, FALSE)] :
            i \in Idents, e \in BOOLEAN}

StoreResponses == {"ok", "conflict", "error"}

\* importlib.import_module(name): the module sys.modules holds under that name,
\* else the module found on sys.path, executed and entered into sys.modules;
\* a module that is not found or whose body raises is not entered.
import_module(modules, name, d) ==
    IF name \in DOMAIN modules
    THEN [ok |-> TRUE, module |-> modules[name], modules |-> modules]
    ELSE IF d.found /\ d.execOk
    THEN [ok |-> TRUE, module |-> d, modules |-> (name :> d) @@ modules]
    ELSE [ok |-> FALSE, module |-> d, modules |-> modules]

\* Instance.__validate_file: the verdict self.valid
instance_valid(imp) ==
    /\ imp.ok
    /\ imp.module.hasClass
    /\ ~imp.module.ctorRaises
    /\ imp.module.hasUse
    /\ imp.module.isItemSpec

\* Instance.__init__ after __validate_file: inspect.getsource(self.object) needs
\* the imported module, and __enumerate_properties calls self.mod() again
instance_constructed(imp) ==
    /\ imp.ok
    /\ imp.module.hasClass
    /\ ~imp.module.ctorRaises

\* what importing does with the candidate's code: the body of a module that is
\* found and not yet in sys.modules is executed
import_operations(modules, name, d) ==
    IF name \notin DOMAIN modules /\ d.found THEN <<"exec">> ELSE <<>>

\* a check for use that calls it
probe_use_byCalling(ops) == Append(ops, "call use")

\* the check for use: the attribute is looked up on an instance (self.mod().use,
\* hasattr(instance, 'use')) and not called
probe_use(ops) == Append(ops, "getattr use")

\* what Instance.__init__ does with the candidate's code: __validate_file
\* imports it, looks up the class, makes an instance, looks up use and reads
\* the MRO; __enumerate_properties makes an instance again
instance_operations(modules, c) ==
    LET imp == import_module(modules, c.ident, c.def)
        m == imp.module
        imported == import_operations(modules, c.ident, c.def)
        validated ==
            IF ~imp.ok THEN imported
            ELSE IF ~m.hasClass THEN Append(imported, "getattr class")
            ELSE IF m.ctorRaises THEN imported \o <<"getattr class", "ctor">>
            ELSE IF ~m.hasUse THEN probe_use(imported \o <<"getattr class", "ctor">>)
            ELSE Append(probe_use(imported \o <<"getattr class", "ctor">>), "mro")
    IN IF imp.ok /\ m.hasClass THEN Append(validated, "ctor") ELSE validated

\* what the checks of __validate_pyz_file do with the imported module
pyz_operations(modules, c) ==
    LET imp == import_module(modules, c.ident, c.def)
        m == imp.module
        imported == import_operations(modules, c.ident, c.def)
    IN IF ~imp.ok THEN imported
       ELSE IF ~m.hasClass THEN Append(imported, "hasattr class")
       ELSE IF ~m.isItemSpec THEN imported \o <<"hasattr class", "issubclass">>
       ELSE IF m.ctorRaises THEN imported \o <<"hasattr class", "issubclass", "ctor">>
       ELSE probe_use(imported \o <<"hasattr class", "issubclass", "ctor">>)

\* Instance(filename): the import, the verdict, and whether the constructor
\* returned (raised = FALSE) or let an exception out
Instance(modules, c) ==
    LET imp == import_module(modules, c.ident, c.def)
    IN [valid |-> instance_valid(imp), raised |-> ~instance_constructed(imp),
        modules |-> imp.modules, invoked |-> instance_operations(modules, c)]

\* the verdict of the checks of __validate_pyz_file on the imported module
pyz_checks(imp) ==
    /\ imp.ok
    /\ imp.module.hasClass
    /\ imp.module.isItemSpec
    /\ ~imp.module.ctorRaises
    /\ imp.module.hasUse

\* a cleanup that is skipped when an exception is on its way out
validate_pyz_finally_unlessRaised(r, d) ==
    IF r.raised THEN r
    ELSE [r EXCEPT !.sys_path = SelectSeq(@, LAMBDA x : x # d), !.scratch = @ \ {d}]

\* the finally clause of __validate_pyz_file: the scratch directory is taken off
\* sys.path and removed
validate_pyz_finally(r, d) ==
    [r EXCEPT !.sys_path = SelectSeq(@, LAMBDA x : x # d),
              !.scratch = @ \ {d}]

\* Acquisition.__validate_pyz_file.  E is the interpreter and file-system state
\* [modules, sys_path, scratch]; the outcome carries the verdict, whether an
\* exception escaped, and that state afterwards.
validate_pyz_file(E, c) ==
    IF ~c.exists
    THEN [valid |-> FALSE, raised |-> FALSE, modules |-> E.modules,
          sys_path |-> E.sys_path, scratch |-> E.scratch, made |-> 0,
          invoked |-> <<>>]
    ELSE
      LET d == CHOOSE x \in 1..(Cardinality(E.scratch) + 1) : x \notin E.scratch
          dirs == E.scratch \cup {d}
      IN IF ~c.readable
         THEN validate_pyz_finally(
                [valid |-> FALSE, raised |-> TRUE, modules |-> E.modules,
                 sys_path |-> E.sys_path, scratch |-> dirs, made |-> d,
                 invoked |-> <<>>], d)
         ELSE LET imp == import_module(E.modules, c.ident, c.def)
              IN validate_pyz_finally(
                   [valid |-> pyz_checks(imp), raised |-> FALSE, modules |-> imp.modules,
                    sys_path |-> <<d>> \o E.sys_path, scratch |-> dirs, made |-> d,
                    invoked |-> pyz_operations(E.modules, c)], d)

should_transmit_unlessRaised(valid, raised) == ~raised

\* `if self.__validate_pyz_file(file)` / `if instance.valid`: the request is made
\* when validation returned and its verdict is true
should_transmit(valid, raised) == valid /\ ~raised

\* one turn of the loop of Acquisition.__init__ on candidate c, the store
\* answering resp if it is asked: the verdict, whether a request was sent,
\* whether an exception left the loop, and the state afterwards
acquire_one(E, c, resp) ==
    IF c.kind = "pyz"
    THEN LET v == validate_pyz_file(E, c)
         \* __handle_pyz_file catches whatever the request raises
         IN [valid |-> v.valid, sent |-> should_transmit(v.valid, v.raised),
             raised |-> v.raised,
             modules |-> v.modules, sys_path |-> v.sys_path, scratch |-> v.scratch,
             made |-> v.made, invoked |-> v.invoked]
    ELSE LET i == Instance(E.modules, c)
             transmit == should_transmit(i.valid, i.raised)
         \* __transmit_to_api lets a failing request out
         IN [valid |-> i.valid, sent |-> transmit,
             raised |-> i.raised \/ (transmit /\ resp = "error"),
             modules |-> i.modules, sys_path |-> E.sys_path, scratch |-> E.scratch,
             made |-> 0, invoked |-> i.invoked]

-----------------------------------------------------------------------------
\* `get file...`: at least one file; cmd() has put the working directory (0) on
\* sys.path; nothing of the batch is imported yet
InitAcquire ==
    /\ argv \in SeqsUpTo(Candidates, MaxBatch) \ {<<>>}
    /\ reports = <<>>
    /\ sys_modules = <<>>
    /\ sys_path = <<0>>
    /\ scratch = {}
    /\ sent = <<>>
    /\ acq_pc = "running"
    /\ CodecIdle
    /\ PackIdle
    /\ UseIdle
    /\ invoked = <<>>
    /\ ObjIdle

\* Acquisition.__init__, one candidate: the next file is validated and, when
\* valid, transmitted; an exception ends the loop
AcquireNext ==
    /\ acq_pc = "running"
    /\ LET k == Len(reports) + 1
           c == argv[k]
       IN \E resp \in StoreResponses :
            LET r == acquire_one([modules |-> sys_modules, sys_path |-> sys_path,
                                  scratch |-> scratch], c, resp)
            IN /\ sys_modules' = r.modules
               /\ sys_path' = r.sys_path
               /\ scratch' = r.scratch
               /\ invoked' = r.invoked
               /\ sent' = IF r.sent THEN Append(sent, [at |-> k, ident |-> c.ident]) ELSE sent
               /\ reports' = IF r.raised THEN reports
                             ELSE Append(reports, [valid |-> r.valid, made |-> r.made])
               /\ acq_pc' = IF r.raised THEN "raised"
                            ELSE IF k = Len(argv) THEN "done" ELSE "running"
    /\ UNCHANGED argv
    /\ UNCHANGED <<codecVars, packVars, usage, objVars>>

NextAcquire == AcquireNext

SpecAcquire == InitAcquire /\ [][NextAcquire]_vars

-----------------------------------------------------------------------------
\* The validation paths together: a batch of candidates through Instance and
\* __validate_pyz_file, or an item directory through _validate_structure.
InitValidate == InitAcquire \/ InitPackager

NextValidate == AcquireNext \/ ValidateStructure

SpecValidate == InitValidate /\ [][NextValidate]_vars

-----------------------------------------------------------------------------
(* Use and info: Usage.__init__ on one item name.                          *)

\* What a source text does when it is executed and its class <item> is used:
\* the body runs or raises; it defines <item> or not; <item>() returns or
\* raises; the instance has use or not; use() and str() return or raise.
Behaviour(execOk, hasClass, ctorOk, hasUse, useOk, strOk) ==
    [execOk |-> execOk, hasClass |-> hasClass, ctorOk |-> ctorOk,
     hasUse |-> hasUse, useOk |-> useOk, strOk |-> strOk]

\* the source texts (as bytes) an item of the store may hold, with what they do
Programs ==
    (<<>>        :> Behaviour(TRUE, FALSE, FALSE, FALSE, FALSE, FALSE))  \* defines nothing
    @@ (<<97>>     :> Behaviour(TRUE, TRUE, TRUE, TRUE, TRUE, TRUE))     \* a sound item
    @@ (<<48>>     :> Behaviour(FALSE, FALSE, FALSE, FALSE, FALSE, FALSE)) \* the body raises
    @@ (<<97, 48>> :> Behaviour(TRUE, TRUE, FALSE, FALSE, FALSE, FALSE)) \* <item>() raises
    @@ (<<48, 97>> :> Behaviour(TRUE, TRUE, TRUE, FALSE, FALSE, TRUE))   \* no use
    @@ (<<97, 97>> :> Behaviour(TRUE, TRUE, TRUE, TRUE, FALSE, TRUE))    \* use() raises
    @@ (<<48, 48>> :> Behaviour(TRUE, TRUE, TRUE, TRUE, TRUE, FALSE))    \* str() raises

\* exec(source, mod.__dict__) of a text: what the fresh namespace then holds
Meaning(text) ==
    IF Utf8Encode(text) \in DOMAIN Programs THEN Programs[Utf8Encode(text)]
    ELSE Behaviour(FALSE, FALSE, FALSE, FALSE, FALSE, FALSE)

\* the answers of the store to the search request: the record (status 200),
\* another status, or a request that raises
SearchResponses == {"found", "missing", "error"}
ReduceResponses == {"ok", "error"}

\* the two modules named Instance: inventory/Instance.py beside Use.py, which
\* Use.py imports, and cli/src/inventory/Instance.py
InstanceModules == {"sibling", "cli"}

\* the path of <item>.pyz inside scratch directory d, as a sys.path entry:
\* 0 is the working directory, d > 0 a scratch directory, -d this file
PyzIn(d) == 0 - d

\* a Usage that stops with an exception of type e
UsageRaised(U, e) == [U EXCEPT !.pc = "raised", !.err = e]

\* Usage.__search_inventory and the test of its result in __init__
search_inventory(U) ==
    LET U1 == [U EXCEPT !.log = Append(@, "search")]
    IN CASE U.store = "found" -> [U1 EXCEPT !.pc = "decode"]
         [] U.store = "missing" -> [U1 EXCEPT !.pc = "exit"]
         [] OTHER -> UsageRaised(U1, "RequestException")

\* Instance(path) as Usage calls it, path being <dir>/<item>.pyz.
\* cli/src/inventory/Instance.py: the name is the path up to its first dot, no
\* module has that name, __validate_file catches the ImportError, and
\* inspect.getsource(self.object) raises AttributeError.
\* inventory/Instance.py: the object it returns carries the text of the file.
use_instance(which, source) ==
    IF which = "cli" THEN Err("AttributeError")
    ELSE LET text == Utf8Decode(source)
         IN IF text.ok THEN Ok(text.val) ELSE Err("UnicodeDecodeError")

\* an __init__ that uses the item whatever was asked
dispatch_alwaysUse(to_use) == "use_exec"

\* __init__ after __decode_item_file: __use_item when to_use, else __get_info
dispatch(to_use) == IF to_use THEN "use_exec" ELSE "info_exec"

\* Usage.__decode_item_file: the stored text is decoded into self.source, the
\* source is written to <dir>/<item>.pyz in a TemporaryDirectory, that path is
\* put in front of sys.path, and Instance(path) is constructed; the directory
\* is removed when the with block is left, normally or by an exception.
\* E is [sys_path, scratch]; the outcome is the Usage and E afterwards.
decode_and_load(U, E, item_bytestring) ==
    LET r == decode_item_file(U.item, item_bytestring)
    IN IF ~r.ok THEN [U |-> UsageRaised(U, r.err), E |-> E]
       ELSE
         LET d == CHOOSE x \in 1..(Cardinality(E.scratch) + 1) : x \notin E.scratch
             inside == [sys_path |-> <<PyzIn(d)>> \o E.sys_path,
                        scratch |-> E.scratch \cup {d}]
             inst == use_instance(U.instance, r.val)
             after == [inside EXCEPT !.scratch = @ \ {d}]
             U1 == [U EXCEPT !.source = r.val]
         IN IF ~inst.ok THEN [U |-> UsageRaised(U1, inst.err), E |-> after]
            ELSE [U |-> [U1 EXCEPT !.inst_source = inst.val,
                                   !.pc = dispatch(U.to_use)],
                  E |-> after]

\* the text __use_item executes: self.instance.source
use_item_text(U) == Ok(U.inst_source)

\* an info path that executes a text of its own, not the decoded source
get_info_text_another(U) == Ok(U.inst_source \o U.inst_source)

\* the text __get_info executes: self.source, bytes that exec decodes
get_info_text(U) ==
    LET text == Utf8Decode(U.source)
    IN IF text.ok THEN text ELSE Err("SyntaxError")

\* mod = types.ModuleType(self.item_name); exec(text, mod.__dict__): the body
\* of the text runs in the dictionary of a module object made for this call
exec_in_fresh_module(U, text) ==
    LET U1 == [U EXCEPT !.log = Append(@, "exec")]
    IN IF ~text.ok THEN UsageRaised(U1, text.err)
       ELSE LET U2 == [U1 EXCEPT !.loaded = Append(@, text.val)]
            IN IF Meaning(text.val).execOk THEN U2 ELSE UsageRaised(U2, "Exception")

\* getattr(mod, self.item_name)(): the class named like the item, instantiated
\* without arguments
instantiate(U) ==
    LET m == Meaning(U.loaded[Len(U.loaded)])
    IN IF ~m.hasClass THEN UsageRaised(U, "AttributeError")
       ELSE LET U1 == [U EXCEPT !.log = Append(@, "ctor")]
            IN IF m.ctorOk THEN U1 ELSE UsageRaised(U1, "Exception")

\* __use_item, first statements: the module is made and the source executed
use_item_exec(U) ==
    LET U1 == exec_in_fresh_module(U, use_item_text(U))
    IN IF U1.pc = "raised" THEN U1 ELSE [U1 EXCEPT !.pc = "use_invoke"]

\* an invocation that goes on to the reduce request whatever use() did
use_item_invoke_thenReduce(U) ==
    [U EXCEPT !.log = @ \o <<"ctor", "use">>, !.pc = "use_reduce"]

\* __use_item: getattr(mod, self.item_name)().use()
use_item_invoke(U) ==
    LET m == Meaning(U.loaded[Len(U.loaded)])
        U1 == instantiate(U)
    IN IF U1.pc = "raised" THEN U1
       ELSE IF ~m.hasUse THEN UsageRaised(U1, "AttributeError")
       ELSE LET U2 == [U1 EXCEPT !.log = Append(@, "use")]
            IN IF m.useOk THEN [U2 EXCEPT !.pc = "use_reduce"]
               ELSE UsageRaised(U2, "Exception")

\* __use_item, last statement: the PATCH request .../v1/inventory/reduce/
use_item_reduce(U, resp) ==
    LET U1 == [U EXCEPT !.log = Append(@, "reduce")]
    IN IF resp = "error" THEN UsageRaised(U1, "RequestException")
       ELSE [U1 EXCEPT !.pc = "done"]

\* __get_info, first statements: the module is made and the source executed
get_info_exec(U) ==
    LET U1 == exec_in_fresh_module(U, get_info_text(U))
    IN IF U1.pc = "raised" THEN U1 ELSE [U1 EXCEPT !.pc = "info_invoke"]

\* __get_info: print(f"... {getattr(mod, self.item_name)()}"), which formats
\* the new instance with its __str__
get_info_invoke(U) ==
    LET m == Meaning(U.loaded[Len(U.loaded)])
        U1 == instantiate(U)
    IN IF U1.pc = "raised" THEN U1
       ELSE LET U2 == [U1 EXCEPT !.log = Append(@, "str")]
            IN IF m.strOk THEN [U2 EXCEPT !.pc = "done"]
               ELSE UsageRaised(U2, "Exception")

\* the text the store holds for an item in the form __decode_item_file reads
StoreEnvelope(name, binary_data) == EnvelopeOf(compress_file(name, binary_data))

\* `use <item>` or `info <item>`: cmd_use / cmd_info construct a Usage; the
\* store holds the item in one of the two text forms, or does not hold it
InitUse ==
    /\ payload \in DOMAIN Programs
    /\ \E text \in {StoreEnvelope(ItemName, payload), SubmitEnvelope(ItemName, payload)} :
          envelope = [set |-> TRUE, text |-> text]
    /\ decoded = NotDecoded
    /\ \E t \in BOOLEAN, i \in InstanceModules, st \in SearchResponses :
          usage = [NoUsage EXCEPT !.pc = "search", !.item = ItemName, !.to_use = t,
                                  !.instance = i, !.store = st]
    /\ argv = <<>>
    /\ reports = <<>>
    /\ sys_modules = <<>>
    /\ sys_path = <<0>>
    /\ scratch = {}
    /\ sent = <<>>
    /\ acq_pc = "idle"
    /\ PackIdle
    /\ invoked = <<>>
    /\ ObjIdle

UseFrame ==
    UNCHANGED <<payload, envelope, packVars, argv, reports, sent, acq_pc, invoked,
                objVars>>

\* __init__: the inventory is searched; without a record the process exits
UseSearch ==
    /\ usage.pc = "search"
    /\ usage' = search_inventory(usage)
    /\ UNCHANGED <<decoded, sys_modules, sys_path, scratch>>
    /\ UseFrame

\* __init__: self.__decode_item_file(item_record)
UseDecode ==
    /\ usage.pc = "decode"
    /\ LET r == decode_and_load(usage, [sys_path |-> sys_path, scratch |-> scratch],
                                envelope.text)
           d == decode_item_file(usage.item, envelope.text)
       IN /\ usage' = r.U
          /\ sys_path' = r.E.sys_path
          /\ scratch' = r.E.scratch
          /\ decoded' = [done |-> TRUE, ok |-> d.ok, val |-> d.val, err |-> d.err]
    /\ UNCHANGED sys_modules
    /\ UseFrame

UseItemExec ==
    /\ usage.pc = "use_exec"
    /\ usage' = use_item_exec(usage)
    /\ UNCHANGED <<decoded, sys_modules, sys_path, scratch>>
    /\ UseFrame

UseItemInvoke ==
    /\ usage.pc = "use_invoke"
    /\ usage' = use_item_invoke(usage)
    /\ UNCHANGED <<decoded, sys_modules, sys_path, scratch>>
    /\ UseFrame

UseItemReduce ==
    /\ usage.pc = "use_reduce"
    /\ \E resp \in ReduceResponses : usage' = use_item_reduce(usage, resp)
    /\ UNCHANGED <<decoded, sys_modules, sys_path, scratch>>
    /\ UseFrame

GetInfoExec ==
    /\ usage.pc = "info_exec"
    /\ usage' = get_info_exec(usage)
    /\ UNCHANGED <<decoded, sys_modules, sys_path, scratch>>
    /\ UseFrame

GetInfoInvoke ==
    /\ usage.pc = "info_invoke"
    /\ usage' = get_info_invoke(usage)
    /\ UNCHANGED <<decoded, sys_modules, sys_path, scratch>>
    /\ UseFrame

NextUse ==
    \/ UseSearch
    \/ UseDecode
    \/ UseItemExec
    \/ UseItemInvoke
    \/ UseItemReduce
    \/ GetInfoExec
    \/ GetInfoInvoke

SpecUse == InitUse /\ [][NextUse]_vars

-----------------------------------------------------------------------------
(* Items: ItemSpec(filename, meta_file).  sys.argv[1:] is a sequence of     *)
(* tokens, a flag (dashes and a lower-case name) or a word (letters and     *)
(* digits only); attribute values are sequences of one-character strings.   *)
MaxArgs == 2

Filenames ==
    { <<"W">>,
      <<"W", ".", "p", "y">>,
      <<"d", "/", "W", ".", "p", "y">>,
      <<"d", ".", "e", "/", "W">>,
      <<".", "/", "W", ".", "p", "y">> }

FlagNames == {"modname", "volume", "capacity"}
Words == { <<"W">>, <<"G">> }
Tokens == [flag : {TRUE}, name : FlagNames] \cup [flag : {FALSE}, text : Words]
MetaFiles == {"none", "absent", "dict", "nodict", "raises"}
MetaData == <<"{", "}">>

\* str.split(sep)[0]: the text before the first sep
split_first(s, sep) ==
    IF \E i \in 1..Len(s) : s[i] = sep
    THEN SubSeq(s, 1, (CHOOSE i \in 1..Len(s) :
                          s[i] = sep /\ \A j \in 1..(i - 1) : s[j] # sep) - 1)
    ELSE s

\* str.split(sep)[-1]: the text after the last sep
split_last(s, sep) ==
    IF \E i \in 1..Len(s) : s[i] = sep
    THEN SubSeq(s, (CHOOSE i \in 1..Len(s) :
                       s[i] = sep /\ \A j \in (i + 1)..Len(s) : s[j] # sep) + 1, Len(s))
    ELSE s

\* filename.split(".")[0].split("/")[-1]
modname_of(filename) == split_last(split_first(filename, "."), "/")

\* re.findall(r"((?<![a-z])-{1,2}[a-z0-9]+)(?:\s)([a-zA-Z0-9_]+)?", ' '.join(argv))
\* from token i on: a flag needs a blank after it, so the last token is never a
\* flag match; its value is the next token when that is a word, else empty
RECURSIVE findall_flags(_, _)
findall_flags(toks, i) ==
    IF i > Len(toks) THEN <<>>
    ELSE IF toks[i].flag /\ i < Len(toks)
    THEN IF toks[i + 1].flag
         THEN <<[arg |-> toks[i].name, val |-> <<>>]>> \o findall_flags(toks, i + 1)
         ELSE <<[arg |-> toks[i].name, val |-> toks[i + 1].text]>>
                 \o findall_flags(toks, i + 2)
    ELSE findall_flags(toks, i + 1)

\* setattr(self, name, value)
setattr(attrs, name, value) ==
    [k \in DOMAIN attrs \cup {name} |-> IF k = name THEN value ELSE attrs[k]]

RECURSIVE set_each(_, _, _)
set_each(attrs, flags, i) ==
    IF i > Len(flags) THEN attrs
    ELSE set_each(setattr(attrs, flags[i].arg, flags[i].val), flags, i + 1)

\* ItemSpec.__set_cli_flags: every flag found becomes an attribute
set_cli_flags(attrs, toks) == set_each(attrs, findall_flags(toks, 1), 1)

\* os.path.abspath with the working directory "/" (no .pyz on sys.path, in the
\* class's module or in sys.argv[0])
get_absolute_path(attrs) ==
    IF attrs["filename"] # <<>> /\ attrs["filename"][1] = "/"
    THEN attrs["filename"]
    ELSE <<"/">> \o attrs["filename"]

\* ItemSpec.load_metadata: only a file that defines a dict `metadata` sets
\* self.meta; every exception is printed and swallowed
load_metadata(attrs, meta_file) ==
    IF meta_file = "dict" THEN setattr(attrs, "meta", MetaData) ELSE attrs

\* ItemSpec.__init__
ItemSpec_init(filename, toks, meta_file) ==
    LET named == setattr(setattr(<<>>, "filename", filename),
                         "modname", modname_of(filename))
        flagged == set_cli_flags(named, toks)
        located == setattr(flagged, "absolute_path", get_absolute_path(flagged))
    IN  IF meta_file \notin {"none", "absent"}
        THEN load_metadata(located, meta_file)
        ELSE located

InitItem ==
    /\ \E f \in Filenames, toks \in SeqsUpTo(Tokens, MaxArgs), m \in MetaFiles :
          item_spec = [NoItem EXCEPT !.filename = f, !.flags = toks, !.meta_file = m]
    /\ dropped = NoDrop
    /\ backpack = NoBackpack
    /\ CodecIdle
    /\ PackIdle
    /\ AcquireIdle
    /\ UseIdle
    /\ invoked = <<>>

ItemFrame == UNCHANGED <<codecVars, packVars, acqVars, usage, invoked, dropped, backpack>>

\* ItemSpec(filename, meta_file) with sys.argv[1:] = flags
ItemSpecInit ==
    /\ ~item_spec.made
    /\ item_spec' = [item_spec EXCEPT
                        !.made = TRUE,
                        !.attrs = ItemSpec_init(item_spec.filename, item_spec.flags,
                                                item_spec.meta_file)]
    /\ ItemFrame

\* item.load_metadata(meta_file) called on the finished object
LoadMetadata ==
    /\ item_spec.made
    /\ \E m \in MetaFiles \ {"none"} :
          item_spec' = [item_spec EXCEPT !.attrs = load_metadata(@, m)]
    /\ ItemFrame

NextItem == ItemSpecInit \/ LoadMetadata

SpecItem == InitItem /\ [][NextItem]_vars

-----------------------------------------------------------------------------
(* Drop: Dropped(item_names).  The store answers each search with a record  *)
(* whose item_bytestring is one of a few texts, with a record lacking the    *)
(* field, with a body that is not JSON, or the request raises.               *)
MaxDrops == 2

DropNames == {ItemName, <<71>>}

\* the item_bytestring texts a record may hold: the hex of a source text, the
\* two text forms of an archive, the hex of bytes that are not UTF-8, and a
\* text that is not hex
DropTexts ==
    {HexEncode(<<97>>), SubmitEnvelope(ItemName, <<97>>), StoreEnvelope(ItemName, <<97>>),
     HexEncode(<<255>>), <<122>>}

DropRecords ==
    [kind : {"found"}, text : DropTexts]
        \cup [kind : {"nokey", "nojson", "error"}, text : {<<>>}]

\* open(f"{item_name}.py", "w") and fh.write: both succeed, open fails, or open
\* succeeds (the file is there, empty) and the write fails
WriteFaults == {"none", "open", "write"}

DropRaised(D, e) == [D EXCEPT !.pc = "raised", !.err = e]

\* the next item of the loop of Dropped.__init__, or its end
drop_next(D) ==
    IF D.k < Len(D.names)
    THEN [D EXCEPT !.pc = "search", !.k = @ + 1, !.record = <<>>, !.text = <<>>]
    ELSE [D EXCEPT !.pc = "done"]

\* Dropped.__search_inventory and the subscript item_record['item_bytestring']
drop_search(D, rec) ==
    LET D1 == [D EXCEPT !.log = Append(@, [op |-> "search", k |-> D.k, text |-> <<>>])]
    IN CASE rec.kind = "found" -> [D1 EXCEPT !.pc = "convert", !.record = rec.text]
         [] rec.kind = "nokey" -> DropRaised(D1, "KeyError")
         [] rec.kind = "nojson" -> DropRaised(D1, "JSONDecodeError")
         [] OTHER -> DropRaised(D1, "RequestException")

\* Dropped.__convert_to_py_file: bytes.fromhex(item_binary).decode('utf-8')
convert_to_py_file(item_binary) ==
    LET raw == FromHex(item_binary)
    IN IF ~raw.ok THEN raw ELSE Utf8Decode(raw.val)

drop_convert(D) ==
    LET source == convert_to_py_file(D.record)
    IN IF source.ok
       THEN [D EXCEPT !.pc = "write", !.text = source.val,
                      !.log = Append(@, [op |-> "convert", k |-> D.k, text |-> source.val])]
       ELSE DropRaised(D, source.err)

\* the file <item_name>.py holding text
written(files, name, text) ==
    [n \in DOMAIN files \cup {name} |-> IF n = name THEN text ELSE files[n]]

drop_write_whateverHappens(D, fault) ==
    IF fault = "none"
    THEN [D EXCEPT !.pc = "reduce",
                   !.files = written(@, D.names[D.k], D.text),
                   !.log = Append(@, [op |-> "write", k |-> D.k, text |-> D.text])]
    ELSE [D EXCEPT !.pc = "reduce"]

\* with open(f"{item_name}.py", "w") as fh: fh.write(item_binary)
drop_write(D, fault) ==
    CASE fault = "none" ->
            [D EXCEPT !.pc = "reduce",
                      !.files = written(@, D.names[D.k], D.text),
                      !.log = Append(@, [op |-> "write", k |-> D.k, text |-> D.text])]
      [] fault = "open" -> DropRaised(D, "OSError")
      [] OTHER -> DropRaised([D EXCEPT !.files = written(@, D.names[D.k], <<>>)],
                             "OSError")

\* requests.patch(.../v1/inventory/reduce/): sent, then answered or raising
drop_reduce(D, resp) ==
    LET D1 == [D EXCEPT !.log = Append(@, [op |-> "reduce", k |-> D.k, text |-> <<>>])]
    IN IF resp = "ok" THEN drop_next(D1) ELSE DropRaised(D1, "RequestException")

\* `drop item...`: cmd() hands sys.argv[1:] to Dropped; the working directory
\* holds a file of the item's name already, or none
InitDrop ==
    /\ \E names \in SeqsUpTo(DropNames, MaxDrops),
          files \in {<<>>, written(<<>>, ItemName, <<98>>)} :
          dropped = drop_next([NoDrop EXCEPT !.names = names, !.files = files])
    /\ item_spec = NoItem
    /\ backpack = NoBackpack
    /\ CodecIdle
    /\ PackIdle
    /\ AcquireIdle
    /\ UseIdle
    /\ invoked = <<>>

DropFrame == UNCHANGED <<codecVars, packVars, acqVars, usage, invoked, item_spec, backpack>>

DropSearch ==
    /\ dropped.pc = "search"
    /\ \E rec \in DropRecords : dropped' = drop_search(dropped, rec)
    /\ DropFrame

DropConvert ==
    /\ dropped.pc = "convert"
    /\ dropped' = drop_convert(dropped)
    /\ DropFrame

DropWrite ==
    /\ dropped.pc = "write"
    /\ \E fault \in WriteFaults : dropped' = drop_write(dropped, fault)
    /\ DropFrame

DropReduce ==
    /\ dropped.pc = "reduce"
    /\ \E resp \in ReduceResponses : dropped' = drop_reduce(dropped, resp)
    /\ DropFrame

NextDrop == DropSearch \/ DropConvert \/ DropWrite \/ DropReduce

SpecDrop == InitDrop /\ [][NextDrop]_vars

-----------------------------------------------------------------------------
(* Backpacks: BackpackSpec(filename, id) and its add and remove methods.    *)
(* An item is an ItemSpec object, told from the others by id, with its      *)
(* modname; the attribute capacity is the class's integer or, when a flag    *)
(* of that name is on the command line, the text the flag gave.              *)
MaxItems == 4

\* BackpackSpec.capacity, the class attribute
capacity == 2

BackpackItems ==
    {[id |-> i, modname |-> IF i % 2 = 1 THEN <<"W">> ELSE <<"G">>] : i \in 1..MaxItems}

RemoveNames == {<<"W">>, <<"G">>, <<"X">>}
SetupResponses == {"ok", "raises"}
NullItem == [id |-> 0, modname |-> <<>>]

IntCapacity(n) == [int |-> TRUE, n |-> n, text |-> <<>>]
TextCapacity(t) == [int |-> FALSE, n |-> 0, text |-> t]

LastOp(op, item, name, ret, pre) ==
    [op |-> op, item |-> item, name |-> name, ret |-> ret, pre |-> pre]

\* BackpackSpec.__init__: ItemSpec.__init__ (the flags become attributes), then
\* contents and id, then __setup_pack, whose requests return or raise
BackpackSpec_init(filename, toks, net) ==
    LET attrs == ItemSpec_init(filename, toks, "none")
        cap == IF "capacity" \in DOMAIN attrs
               THEN TextCapacity(attrs["capacity"])
               ELSE IntCapacity(capacity)
    IN IF net = "ok"
       THEN [made |-> TRUE, capacity |-> cap, contents |-> <<>>,
             last |-> LastOp("init", NullItem, <<>>, "None", <<>>)]
       ELSE [made |-> FALSE, capacity |-> cap, contents |-> <<>>,
             last |-> LastOp("init", NullItem, <<>>, "ConnectionError", <<>>)]

add_item_unchecked(B, item) ==
    [B EXCEPT !.contents = Append(@, item),
              !.last = LastOp("add", item, <<>>, "True", B.contents)]

\* BackpackSpec.__add_item; len(self.contents) < self.capacity raises TypeError
\* when capacity is text
add_item(B, item) ==
    IF ~B.capacity.int
    THEN [B EXCEPT !.last = LastOp("add", item, <<>>, "TypeError", B.contents)]
    ELSE IF Len(B.contents) < B.capacity.n
    THEN [B EXCEPT !.contents = Append(@, item),
                   !.last = LastOp("add", item, <<>>, "True", B.contents)]
    ELSE [B EXCEPT !.last = LastOp("add", item, <<>>, "False", B.contents)]

\* list.remove(x): without the first element equal to x
list_remove(q, x) ==
    LET i == CHOOSE i \in 1..Len(q) : q[i] = x /\ \A j \in 1..(i - 1) : q[j] # x
    IN SubSeq(q, 1, i - 1) \o SubSeq(q, i + 1, Len(q))

\* BackpackSpec.__remove_item: the first item of that modname is removed and
\* returned, None when there is none
remove_item(B, item_name) ==
    IF \E i \in 1..Len(B.contents) : B.contents[i].modname = item_name
    THEN LET i == CHOOSE i \in 1..Len(B.contents) :
                     /\ B.contents[i].modname = item_name
                     /\ \A j \in 1..(i - 1) : B.contents[j].modname # item_name
             item == B.contents[i]
         IN [B EXCEPT !.contents = list_remove(@, item),
                      !.last = LastOp("remove", item, item_name, "item", B.contents)]
    ELSE [B EXCEPT !.last = LastOp("remove", NullItem, item_name, "None", B.contents)]

InitBackpack ==
    /\ backpack = NoBackpack
    /\ item_spec = NoItem
    /\ dropped = NoDrop
    /\ CodecIdle
    /\ PackIdle
    /\ AcquireIdle
    /\ UseIdle
    /\ invoked = <<>>

BackpackFrame ==
    UNCHANGED <<codecVars, packVars, acqVars, usage, invoked, item_spec, dropped>>

\* BackpackSpec(filename) with sys.argv[1:] = toks
BackpackSpecInit ==
    /\ ~backpack.made
    /\ \E f \in Filenames, toks \in SeqsUpTo(Tokens, MaxArgs), net \in SetupResponses :
          backpack' = BackpackSpec_init(f, toks, net)
    /\ BackpackFrame

AddItem ==
    /\ backpack.made
    /\ \E item \in BackpackItems : backpack' = add_item(backpack, item)
    /\ BackpackFrame

RemoveItem ==
    /\ backpack.made
    /\ \E n \in RemoveNames : backpack' = remove_item(backpack, n)
    /\ BackpackFrame

NextBackpack == BackpackSpecInit \/ AddItem \/ RemoveItem

SpecBackpack == InitBackpack /\ [][NextBackpack]_vars

-----------------------------------------------------------------------------
(* The claims.                                                             *)

\* C1: decoding the envelope the submit path produced returns exactly the
\* bytes that were submitted, for every byte sequence.
C1_RoundTripLaw ==
    (decoded.done /\ envelope.text = SubmitEnvelope(ItemName, payload)) =>
        (decoded.ok /\ decoded.val = payload)

\* C2: a batch is continue-on-error: whatever fails for one candidate, the loop
\* of Acquisition.__init__ goes on to the next, so when it ends every candidate
\* of the argument list has been processed and reported.
C2_ContinueOnError ==
    LET attempted == Len(reports) + (IF acq_pc = "raised" THEN 1 ELSE 0)
    IN acq_pc \in {"done", "raised"} => attempted = Len(argv)

\* C3: package with the output file there and force=False fails with the
\* output-exists error and leaves the file as it was; with force=True on a source
\* tree that passes validation it succeeds and the output file is the new archive.
C3_OutputExists ==
    (call.op = "package" /\ call.prePyz.exists /\ call.fault = "none") =>
        /\ ~call.force => (~call.ok /\ call.err = "FileExistsError" /\ pyz = call.prePyz)
        /\ (call.force /\ validate_structure(Pk, tree).ok) =>
              (call.ok /\ pyz.kind = "archive")

\* C4: when package has finished, returning or raising at whatever stage, no
\* scratch directory it made exists any more, the one temp_dir named included.
C4_ScratchRemoved ==
    call.op = "package" =>
        (DOMAIN tmpfs \subseteq call.preDirs /\ temp_dir \notin DOMAIN tmpfs)

\* a build that raised after its staging directory was made, and left none
C4_Witness ==
    /\ call.op = "package" /\ ~call.ok
    /\ call.cause \in {"OSError", "ZipAppError"}
    /\ DOMAIN tmpfs = {}

\* C5: archive validation leaves no scratch directory behind, on success, on a
\* failed check, or when an exception leaves it (an archive that cannot be
\* opened): between candidates no scratch directory exists.
C5_ValidationScratchRemoved ==
    /\ scratch = {}
    /\ \A i \in 1..Len(reports) : reports[i].made \notin scratch

\* an archive that exists and cannot be opened: the exception has left
\* __validate_pyz_file, and the directory it had made is gone
C5_Witness ==
    /\ acq_pc = "raised"
    /\ LET c == argv[Len(reports) + 1]
       IN c.kind = "pyz" /\ c.exists /\ ~c.readable
    /\ scratch = {}

\* the verdict a candidate gets when it is validated alone in a fresh process
FreshVerdict(c) ==
    acquire_one([modules |-> <<>>, sys_path |-> <<0>>, scratch |-> {}], c, "ok").valid

\* C6: validation is isolated per call: the verdict reported for a candidate is
\* the one its own definitions give, whatever was validated before it.
C6_IsolatedValidation ==
    \A i \in 1..Len(reports) : reports[i].valid = FreshVerdict(argv[i])

\* C7: _validate_structure on a directory missing required files raises the
\* structure error (FileNotFoundError), and its report names every missing file.
C7_AllMissingNamed ==
    LET absent == {f \in {MetaFile, ModuleFile(tree)} : f \notin tree.files}
    IN (call.op = "validate_structure" /\ absent # {}) =>
          /\ ~call.ok /\ call.err = "FileNotFoundError"
          /\ {call.missing[i] : i \in 1..Len(call.missing)} = absent

\* a validation of a directory with neither meta.py nor the module file
C7_Witness ==
    /\ call.op = "validate_structure"
    /\ tree.files \cap {MetaFile, ModuleFile(tree)} = {}
    /\ Len(call.missing) = 2

\* C8: _validate_structure raises the metadata error whenever meta.py is there
\* (with a sound module file) but yields no mapping holding name, author,
\* version and description.
C8_RequiredKeys ==
    (/\ call.op = "validate_structure"
     /\ {MetaFile, ModuleFile(tree)} \subseteq tree.files
     /\ tree.mod.loads /\ ModuleName(tree) \in tree.mod.classes
     /\ ~(tree.meta.kind = "dict" /\ RequiredKeys \subseteq tree.meta.keys)) =>
        (~call.ok /\ call.msg = "Invalid meta.py file")

\* C9: for a directory whose module file defines the type named like the module
\* (with at most one launcher of its own) and whose metadata holds the four keys,
\* package (the output file absent, or force given) returns an archive holding
\* the module, the metadata and exactly one launcher marker.
C9_BuildsArchive ==
    (/\ call.op = "package" /\ call.fault = "none"
     /\ (call.force \/ ~call.prePyz.exists)
     /\ tree.mod.file \in tree.files /\ tree.mod.loads
     /\ ModuleName(tree) \in tree.mod.classes
     /\ Occurrences(tree.mod.text, Marker) <= 1
     /\ tree.meta.kind = "dict" /\ RequiredKeys \subseteq tree.meta.keys) =>
        /\ call.ok /\ pyz.kind = "archive"
        /\ {tree.mod.file, MetaFile} \subseteq pyz.files
        /\ Occurrences(pyz.text, Marker) = 1

\* C10: a call of _add_entrypoint that follows a successful call on the same
\* staged module leaves every file as it is, and after any number of calls the
\* launcher marker occurs no more often than once or than it did in the source.
C10_Idempotent ==
    /\ [][(call.op = "add_entrypoint" /\ call.ok /\ call'.op = "add_entrypoint")
            => tmpfs' = tmpfs]_vars
    /\ []((call.op = "add_entrypoint" /\ call.ok) =>
            LET before == Occurrences(tree.mod.text, Marker)
            IN Occurrences(tmpfs[temp_dir].mod.text, Marker)
                  <= (IF before = 0 THEN 1 ELSE before))

\* a second call on a module that had no launcher before the first
C10_Witness ==
    /\ call.op = "add_entrypoint" /\ call.ok /\ call.n >= 2
    /\ ~Contains(tree.mod.text, Marker)
    /\ tmpfs[temp_dir].mod.text = tree.mod.text \o EntrypointCode

\* the last element of a non-empty sequence
Last(q) == q[Len(q)]

\* C11: a failure of __use_item or __get_info while the source is executed, the
\* class looked up, the instance made or its operation invoked reaches the
\* caller as ExecutionError with the original exception as its cause.
C11_FailuresWrapped ==
    (/\ usage.pc = "raised"
     /\ usage.log # <<>>
     /\ Last(usage.log) \in {"exec", "ctor", "use", "str"}) =>
        (usage.err = "ExecutionError" /\ usage.cause # "none")

\* C12: the reduce request is in the log only directly after use, and only
\* when the source executed, defined the class, the instance was made, and
\* its use returned; an invocation that raised before has sent none.
C12_ReduceAfterUse ==
    \A i \in 1..Len(usage.log) :
        usage.log[i] = "reduce" =>
            /\ i > 1 /\ usage.log[i - 1] = "use"
            /\ usage.to_use
            /\ usage.loaded # <<>>
            /\ LET m == Meaning(Last(usage.loaded))
               IN m.execOk /\ m.hasClass /\ m.ctorOk /\ m.hasUse /\ m.useOk

\* a use invocation that went through: the request follows use
C12_Witness ==
    /\ usage.pc = "done"
    /\ usage.log = <<"search", "exec", "ctor", "use", "reduce">>

\* C13: an info invocation sends the store nothing but the search: no reduce
\* (and the log knows no add or remove), and use is not invoked.
C13_InfoReadOnly ==
    (usage.pc # "idle" /\ ~usage.to_use) =>
        \A i \in 1..Len(usage.log) :
            usage.log[i] \in {"search", "exec", "ctor", "str"}

\* an info invocation that went through
C13_Witness ==
    /\ ~usage.to_use
    /\ usage.pc = "done"
    /\ usage.log = <<"search", "exec", "ctor", "str">>

\* C14: when Usage.__init__ has completed, sys.path and sys.modules are what
\* they were before the call.
C14_RuntimeStateUnchanged ==
    usage.pc = "done" => (sys_path = <<0>> /\ sys_modules = <<>>)

\* the entries of the archive inside a stored text, when it has the form the
\* decoder reads
InnerEntries(text) ==
    LET raw == FromHex(text)
        hex == IF raw.ok THEN Utf8Decode(raw.val) ELSE raw
        archive == IF hex.ok THEN FromHex(hex.val) ELSE hex
    IN IF archive.ok THEN ZipOpen(archive.val) ELSE archive

\* C15: the decoder returns source bytes only for an archive of exactly one
\* entry; an archive of no entry or of more than one is rejected.
C15_ExactlyOneEntry ==
    LET inner == InnerEntries(envelope.text)
    IN (decoded.done /\ inner.ok /\ Len(inner.val) # 1) => ~decoded.ok

\* C16: a candidate is reported valid exactly when its module loads and defines
\* a type named like the file that can be made and has the contract's
\* operations (every Python object has __str__, the describe of this code, so
\* that is having use).  Stated of the first candidate of a batch, whose
\* verdict no earlier import can have touched.
C16_ValidIffContract ==
    (argv # <<>> /\ Len(reports) >= 1) =>
        LET d == argv[1].def
        IN reports[1].valid =
             (/\ argv[1].exists /\ argv[1].readable
              /\ d.found /\ d.execOk /\ d.hasClass /\ ~d.ctorRaises /\ d.hasUse)

\* C17: a loose file whose class raises when constructed is reported invalid,
\* and Instance(filename) returns: no exception leaves the loop for it.
C17_CtorFailureReported ==
    (/\ argv # <<>>
     /\ argv[1].kind = "py"
     /\ argv[1].def.found /\ argv[1].def.execOk /\ argv[1].def.hasClass
     /\ argv[1].def.ctorRaises
     /\ (acq_pc = "raised" \/ Len(reports) >= 1)) =>
        (Len(reports) >= 1 /\ ~reports[1].valid)

\* C18: validation never calls the candidate's use: what Instance,
\* __validate_pyz_file and _validate_structure do with the candidate's code is
\* executing the module body, looking up and making the class, and looking up
\* use as an attribute.
C18_UseNeverCalled ==
    \A i \in 1..Len(invoked) :
        invoked[i] \in {"exec meta", "exec", "getattr class", "hasattr class",
                        "issubclass", "ctor", "getattr use", "mro"}

\* a validation that came as far as the check for use
C18_Witness ==
    /\ invoked # <<>>
    /\ \E i \in 1..Len(invoked) : invoked[i] = "getattr use"

\* C19: a call of package, returning or raising, leaves the item directory as
\* it was: the same files with the same content.
C19_SourceTreeUntouched == [][call'.op = "package" => tree' = tree]_vars

\* what a path has done to materialize the plugin: the texts executed, each in
\* its own new module, and the log without the operation invoked at the end
\* and the request that follows it
Materialized(U) ==
    [loaded |-> U.loaded,
     steps |-> SelectSeq(U.log, LAMBDA x : x \notin {"use", "str", "reduce"})]

C21_NameFromFilename ==
    item_spec.made => item_spec.attrs["modname"] = modname_of(item_spec.filename)

\* C22: in a batch, a candidate whose validation was reported failed has no add
\* request among those sent; every request sent is for a candidate reported
\* valid, or for the one whose request raised and ended the loop.
C22_SentOnlyIfValid ==
    \A i \in 1..Len(sent) :
        LET k == sent[i].at
        IN IF k <= Len(reports)
           THEN reports[k].valid
           ELSE k = Len(reports) + 1 /\ acq_pc = "raised"

\* a finished batch of two, one reported invalid and not sent, the other sent
C22_Witness ==
    /\ acq_pc = "done"
    /\ Len(reports) = 2
    /\ \E k \in 1..2 : ~reports[k].valid /\ \A i \in 1..Len(sent) : sent[i].at # k
    /\ \E i \in 1..Len(sent) : reports[sent[i].at].valid

\* C23: every reduce request of a drop comes directly after the write of that
\* item's file, which holds the text the decode of that item's record gave,
\* itself after that item's search; a search, decode or write that failed is
\* followed by no reduce request.
C23_ReduceAfterWrite ==
    /\ \A i \in 1..Len(dropped.log) :
          dropped.log[i].op = "reduce" =>
              /\ i >= 4
              /\ dropped.log[i - 1].op = "write"
              /\ dropped.log[i - 2].op = "convert"
              /\ dropped.log[i - 3].op = "search"
              /\ \A j \in 1..3 : dropped.log[i - j].k = dropped.log[i].k
              /\ dropped.log[i - 1].text = dropped.log[i - 2].text
    /\ (dropped.pc = "raised" /\ dropped.log[Len(dropped.log)].op # "reduce") =>
          \A i \in 1..Len(dropped.log) :
              dropped.log[i].op = "reduce" => dropped.log[i].k < dropped.k

\* a drop of two items: the first written and its reduce request sent, the
\* second stopped by a failing write with no request for it
C23_Witness ==
    /\ dropped.pc = "raised" /\ dropped.err = "OSError" /\ dropped.k = 2
    /\ \E i \in 1..Len(dropped.log) :
          dropped.log[i].op = "reduce" /\ dropped.log[i].k = 1
    /\ dropped.log[Len(dropped.log)].op = "convert"

\* C24: a backpack never holds more items than the capacity; an add on a full
\* backpack returns False and leaves the contents as they were; a remove of a
\* name no item in it has returns None and leaves the contents as they were.
C24_CapacityInvariant ==
    LET pre == backpack.last.pre
    IN /\ Len(backpack.contents) <= capacity
       /\ backpack.capacity.int => Len(backpack.contents) <= backpack.capacity.n
       /\ (backpack.last.op = "add" /\ backpack.capacity.int
              /\ Len(pre) >= backpack.capacity.n) =>
             (backpack.last.ret = "False" /\ backpack.contents = pre)
       /\ (backpack.last.op = "remove"
              /\ \A i \in 1..Len(pre) : pre[i].modname # backpack.last.name) =>
             (backpack.last.ret = "None" /\ backpack.contents = pre)

\* a full backpack that has just refused an item
C24_Witness ==
    /\ backpack.made
    /\ backpack.last.op = "add" /\ backpack.last.ret = "False"
    /\ Len(backpack.contents) = capacity

=============================================================================
